---- MODULE Spec2Model ----
(***************************************************************************)
(* GambolSilver.py: a Streamlit script that loads an uploaded CSV of iron  *)
(* condor candidates, cleans it in place, grades every row and shows the   *)
(* rows that pass two slider thresholds.                                   *)
(*                                                                         *)
(* Units.  Text cells are tuples of one-character strings.  Profit Prob is *)
(* a natural number (the model alphabet has digits only, no sign, point or *)
(* exponent).  Profitability and Grade are kept in tenths (round(.,1)), so *)
(* 25.0 is 250.  The grade functions take their argument in tenths and     *)
(* return the grade in tenths (0.3 is 3, 1 is 10).  The wall clock counts  *)
(* instants two to a day: tick 2d is midnight of day d, tick 2d+1 is any     *)
(* later time of day d.                                                    *)
(***************************************************************************)
EXTENDS Integers, Sequences, FiniteSets, TLC

VARIABLES uploaded_file, cache, clock, sliders, out, call

vars == <<uploaded_file, cache, clock, sliders, out, call>>

(***************************************************************************)
(* Bounds of the model                                                     *)
(***************************************************************************)
MaxRows == 3

MaxClock == 3

MaxRunTicks == 2

MaxProf == 302

MaxProb == 62

MaxDur == 3

(***************************************************************************)
(* Text and float()                                                        *)
(***************************************************************************)
Digits == {"1", "2", "4", "5", "6"}

DigitVal(c) ==
  CASE c = "1" -> 1 [] c = "2" -> 2 [] c = "4" -> 4 [] c = "5" -> 5 [] c = "6" -> 6

Drop(s, n) == SubSeq(s, n + 1, Len(s))

StartsWith(s, old) == Len(old) <= Len(s) /\ SubSeq(s, 1, Len(old)) = old

\* str.replace(old, ''): every non-overlapping occurrence, left to right
RECURSIVE Replace(_, _)
Replace(s, old) ==
  IF s = <<>> THEN <<>>
  ELSE IF StartsWith(s, old) THEN Replace(Drop(s, Len(old)), old)
  ELSE <<Head(s)>> \o Replace(Tail(s), old)

\* float() ignores leading and trailing white space
RECURSIVE LStrip(_)
LStrip(s) == IF s # <<>> /\ Head(s) = " " THEN LStrip(Tail(s)) ELSE s

RECURSIVE RStrip(_)
RStrip(s) ==
  IF s # <<>> /\ s[Len(s)] = " " THEN RStrip(SubSeq(s, 1, Len(s) - 1)) ELSE s

Strip(s) == RStrip(LStrip(s))

IsNumberText(s) ==
  LET t == Strip(s) IN t # <<>> /\ \A i \in 1..Len(t) : t[i] \in Digits

RECURSIVE NatVal(_)
NatVal(t) ==
  IF t = <<>> THEN 0
  ELSE 10 * NatVal(SubSeq(t, 1, Len(t) - 1)) + DigitVal(t[Len(t)])

\* a function over 1..n as the tuple it is
AsTuple(f) == <<>> \o f

Raise(e) == [ok |-> FALSE, err |-> e, v |-> 0]

Return(x) == [ok |-> TRUE, err |-> "", v |-> x]

\* float(text): ValueError unless the text is a number
float(s) == IF IsNumberText(s) THEN Return(NatVal(Strip(s))) ELSE Raise("ValueError")

(***************************************************************************)
(* The rows an uploaded file is made of: well-formed rows, bare numbers,   *)
(* the marker in the middle of the text, text that is no number, and an    *)
(* empty footer row; exp is the day of Exp Date                            *)
(***************************************************************************)
Row(pp, rr, exp) == [pp |-> pp, rr |-> rr, exp |-> exp]

SampleRows ==
  { Row(<<"4", "5", "%">>, <<"2", " ", "t", "o", " ", "1">>, 2),
    Row(<<"4", "5">>, <<"4">>, 1),
    Row(<<"4", "%", "5">>, <<"1", " ", "t", "o", " ", "1", "4">>, 0),
    Row(<<"x", "%">>, <<"2", " ", "t", "o", " ", "1">>, 1),
    Row(<<"4", "5", "%">>, <<"2", " ", "t", "o", " ", "2">>, 1),
    Row(<<>>, <<>>, 0) }

CellTexts == {r.pp : r \in SampleRows} \cup {r.rr : r \in SampleRows}

\* float() on the texts that occur, evaluated once
NumberTexts == {s \in CellTexts : IsNumberText(s)}

(***************************************************************************)
(* pd.read_csv: a cell stays text unless it is empty (NaN) or its whole    *)
(* column is numeric (then the column is parsed to numbers)                *)
(***************************************************************************)
Text(s) == [t |-> "str", s |-> s]

NotText == [t |-> "num", s |-> <<>>]

ColumnIsNumeric(cells) ==
  \A i \in 1..Len(cells) : cells[i] = <<>> \/ cells[i] \in NumberTexts

ReadColumn(cells) ==
  LET numeric == ColumnIsNumeric(cells)
  IN  AsTuple([i \in 1..Len(cells) |->
                 IF cells[i] = <<>> \/ numeric THEN NotText ELSE Text(cells[i])])

read_csv(file) ==
  LET pp == ReadColumn(AsTuple([i \in 1..Len(file) |-> file[i].pp]))
      rr == ReadColumn(AsTuple([i \in 1..Len(file) |-> file[i].rr]))
  IN  AsTuple([i \in 1..Len(file) |->
                 [idx |-> i - 1, RowIndex |-> -1, pp |-> pp[i], rr |-> rr[i],
                  exp |-> file[i].exp]])

(***************************************************************************)
(* Field parsers (lines 48-54)                                             *)
(***************************************************************************)
PercentSign == <<"%">>

ToOne == <<" ", "t", "o", " ", "1">>

\* a parser that returns 0.0 for text that is no number
convert_Profit_Prob_to_float_fallback(cell) ==
  IF cell.t # "str" THEN Raise("AttributeError")
  ELSE IF IsNumberText(Replace(cell.s, PercentSign))
       THEN float(Replace(cell.s, PercentSign))
       ELSE Return(0)

convert_Profit_Prob_to_float(cell) ==
  IF cell.t # "str" THEN Raise("AttributeError")
  ELSE float(Replace(cell.s, PercentSign))

convert_Risk_Reward_to_float(cell) ==
  IF cell.t # "str" THEN Raise("AttributeError")
  ELSE float(Replace(cell.s, ToOne))

Cells == {Text(s) : s \in CellTexts} \cup {NotText}

\* Series.apply of the two parsers, cell by cell, each distinct cell evaluated once
ProfitProbApply == [cell \in Cells |-> convert_Profit_Prob_to_float(cell)]

RiskRewardApply == [cell \in Cells |-> convert_Risk_Reward_to_float(cell)]

\* n/d rounded half to even, d > 0
RoundHalfEven(n, d) ==
  LET q == n \div d
      r == n % d
  IN  IF 2 * r < d THEN q
      ELSE IF 2 * r > d THEN q + 1
      ELSE IF q % 2 = 0 THEN q ELSE q + 1

RoundDiv(n, d) == IF d > 0 THEN RoundHalfEven(n, d) ELSE RoundHalfEven(-n, -d)

\* round(100/x, 1) in tenths; x >= 1 in the model alphabet (no digit 0)
Profitability(x) == RoundDiv(1000, x)

(***************************************************************************)
(* Duration (lines 56-62)                                                  *)
(***************************************************************************)
\* datetime.strptime(text, "%m/%d/%Y"): midnight of the day
strptime(day) == 2 * day

\* (future_date - today).days: timedelta.days is the floor
days_between(future_date, today) == (future_date - today) \div 2

Duration(day, today) == days_between(strptime(day), today) + 1

(***************************************************************************)
(* Grade calculation (lines 70-105)                                        *)
(***************************************************************************)
NoGrade == -1

profitability_ranges == <<60, 70, 80, 90, 100, 125, 150, 200, 300>>

profitability_grade == <<1, 2, 3, 4, 5, 6, 7, 8, 9>>

RECURSIVE grade_profitability_loop(_, _)
grade_profitability_loop(prof, count) ==
  IF count > Len(profitability_ranges) THEN NoGrade
  ELSE IF prof < 10 * profitability_ranges[count] THEN profitability_grade[count]
  ELSE IF prof >= 10 * profitability_ranges[Len(profitability_ranges)] THEN 10
  ELSE grade_profitability_loop(prof, count + 1)

grade_profitability_le(prof) ==
  IF \E i \in 1..9 : prof <= 10 * profitability_ranges[i]
  THEN profitability_grade[CHOOSE i \in 1..9 :
         /\ prof <= 10 * profitability_ranges[i]
         /\ \A j \in 1..(i - 1) : prof > 10 * profitability_ranges[j]]
  ELSE 10

grade_profitability(prof) == grade_profitability_loop(prof, 1)

profit_prob_ranges == <<30, 35, 40, 45, 50, 55, 60>>

profit_prob_grade == <<3, 4, 5, 6, 7, 8, 9>>

RECURSIVE grade_profit_prob_loop(_, _)
grade_profit_prob_loop(profit_prob, count) ==
  IF count > Len(profit_prob_ranges) THEN NoGrade
  ELSE IF profit_prob < 10 * profit_prob_ranges[count] THEN profit_prob_grade[count]
  ELSE IF profit_prob >= 10 * profit_prob_ranges[Len(profit_prob_ranges)] THEN 10
  ELSE grade_profit_prob_loop(profit_prob, count + 1)

\* a loop that runs off the end of the list when nothing below the last
\* threshold matched, without the >= test
RECURSIVE grade_profit_prob_noelif(_, _)
grade_profit_prob_noelif(profit_prob, count) ==
  IF count > Len(profit_prob_ranges) THEN NoGrade
  ELSE IF profit_prob < 10 * profit_prob_ranges[count] THEN profit_prob_grade[count]
  ELSE grade_profit_prob_noelif(profit_prob, count + 1)

grade_profit_prob_fallthrough(profit_prob) == grade_profit_prob_noelif(profit_prob, 1)

grade_profit_prob(profit_prob) == grade_profit_prob_loop(profit_prob, 1)

w_profit_probability == 50

w_profitability == 50

w_duration_on == w_profitability

w_duration == 0

w_time_until_event == 0

\* (10/row['Duration']) * w_duration as a fraction of tenths; the division is
\* evaluated, and raises ZeroDivisionError on 0, whatever the weight
duration_part_skipped(duration) ==
  IF w_duration = 0 THEN [ok |-> TRUE, err |-> "", num |-> 0, den |-> 1]
  ELSE IF duration = 0 THEN [ok |-> FALSE, err |-> "ZeroDivisionError", num |-> 0, den |-> 1]
  ELSE [ok |-> TRUE, err |-> "", num |-> 100 * w_duration, den |-> duration]

duration_part(duration) ==
  IF duration = 0 THEN [ok |-> FALSE, err |-> "ZeroDivisionError", num |-> 0, den |-> 1]
  ELSE [ok |-> TRUE, err |-> "", num |-> 100 * w_duration, den |-> duration]

\* the body of the grade loop (lines 96-105), Grade in tenths; a grade of
\* None fails at the multiplication of line 101 or 102
GradeRow(prof, profit_prob, duration) ==
  LET pg  == grade_profitability(prof)
      ppg == grade_profit_prob(profit_prob)
      dp  == duration_part(duration)
  IN  IF pg = NoGrade \/ ppg = NoGrade THEN Raise("TypeError")
      ELSE IF ~dp.ok THEN Raise(dp.err)
      ELSE Return(RoundDiv((ppg * w_profit_probability + pg * w_profitability) * dp.den
                             + dp.num, dp.den))

(***************************************************************************)
(* The script (lines 17-174)                                               *)
(***************************************************************************)
NoFile == [present |-> FALSE, rows |-> <<>>]

EmptyCache == [present |-> FALSE, df |-> <<>>]

\* what the cache holds for a frame that load_data returned and the script
\* then cleaned in place: st.cache_data pickles the return value and hands
\* out copies, so the cleaning never reaches the cached frame
cache_resource(loaded, cleaned) == cleaned

cache_data(loaded, cleaned) == loaded

load_data(c, file) == IF c.present THEN c.df ELSE read_csv(file)

\* lines 45-46: Row Index is the index label, then the last row is dropped
\* in place (df.index[-1] raises IndexError on an empty frame)
WithRowIndex(df) ==
  AsTuple([i \in 1..Len(df) |-> [df[i] EXCEPT !.RowIndex = df[i].idx]])

DropFirst(df) == Tail(df)

DropLast(df) == SubSeq(df, 1, Len(df) - 1)

DataCleaning(df) ==
  IF df = <<>> THEN [ok |-> FALSE, err |-> "IndexError", df |-> WithRowIndex(df)]
  ELSE [ok |-> TRUE, err |-> "", df |-> DropLast(WithRowIndex(df))]

FirstError(res) ==
  res[CHOOSE i \in 1..Len(res) : ~res[i].ok /\ \A j \in 1..(i - 1) : res[j].ok].err

AllOk(res) == \A i \in 1..Len(res) : res[i].ok

ParseProfitProb(rows) ==
  AsTuple([i \in 1..Len(rows) |-> ProfitProbApply[rows[i].pp]])

ParseRiskReward(rows) ==
  AsTuple([i \in 1..Len(rows) |-> RiskRewardApply[rows[i].rr]])

\* lines 45-54 on the loaded frame: the cleaning and the two column parses;
\* frame is the loaded frame as the in-place cleaning left it
Parse(df) ==
  LET c  == DataCleaning(df)
      pp == ParseProfitProb(c.df)
      rr == ParseRiskReward(c.df)
  IN  IF ~c.ok THEN [ok |-> FALSE, err |-> c.err, frame |-> c.df, rows |-> <<>>]
      ELSE IF ~AllOk(pp) THEN [ok |-> FALSE, err |-> FirstError(pp), frame |-> c.df, rows |-> <<>>]
      ELSE IF ~AllOk(rr) THEN [ok |-> FALSE, err |-> FirstError(rr), frame |-> c.df, rows |-> <<>>]
      ELSE [ok |-> TRUE, err |-> "", frame |-> c.df,
            rows |-> AsTuple([i \in 1..Len(c.df) |->
                       [RowIndex |-> c.df[i].RowIndex, exp |-> c.df[i].exp,
                        ProfitProb |-> pp[i].v, Profitability |-> Profitability(rr[i].v)]])]

\* the number of iterations of the duration loop (lines 60-62), which is
\* reached when the cleaning and both column parses succeeded
DurationLoopRows(parsed) == IF parsed.ok THEN Len(parsed.rows) ELSE 0

Aborted(e, durations, nows) ==
  [status |-> "error", err |-> e, df |-> <<>>, durations |-> durations, nows |-> nows]

\* lines 56-105 on the parsed rows; nows[i] is what datetime.today() returned
\* in the i-th iteration of the duration loop
Grade(parsed, nows) ==
  LET rows == parsed.rows
      dur  == AsTuple([i \in 1..Len(rows) |-> Duration(rows[i].exp, nows[i])])
      gr   == AsTuple([i \in 1..Len(rows) |->
                         GradeRow(rows[i].Profitability, 10 * rows[i].ProfitProb, dur[i])])
  IN  IF ~parsed.ok THEN Aborted(parsed.err, <<>>, <<>>)
      ELSE IF ~AllOk(gr) THEN Aborted(FirstError(gr), dur, nows)
      ELSE [status |-> "ok", err |-> "", durations |-> dur, nows |-> nows,
            df |-> AsTuple([i \in 1..Len(rows) |->
                      [RowIndex |-> rows[i].RowIndex, exp |-> rows[i].exp,
                       ProfitProb |-> rows[i].ProfitProb,
                       Profitability |-> rows[i].Profitability,
                       Duration |-> dur[i], Grade |-> gr[i].v]])]

\* lines 45-105
Enrich(df, nows) == Grade(Parse(df), nows)

\* line 112, thresholds in whole units against Profitability in tenths
KeepStrict(row, sl) ==
  row.Profitability > 10 * sl.profitability /\ row.ProfitProb > sl.profit_prob

Keep(row, sl) ==
  row.Profitability >= 10 * sl.profitability /\ row.ProfitProb >= sl.profit_prob

df_filtered(df, sl) == SelectSeq(df, LAMBDA row : Keep(row, sl))

\* lines 115-171
Display(filtered) ==
  IF filtered = <<>> THEN [warning |-> "No data points in this range.",
                           chart |-> FALSE, table |-> FALSE]
  ELSE [warning |-> "", chart |-> TRUE, table |-> TRUE]

NotDisplayed == [warning |-> "", chart |-> FALSE, table |-> FALSE]

\* the frame the cleaning starts from (lines 32-41): load_data, and on
\* Refresh Data the cache is cleared and load_data reads the file again
Loaded(c, file, button) == IF button THEN load_data(EmptyCache, file) ELSE load_data(c, file)

\* lines 107-171 after the grade loop; nothing is shown when the run aborted
Show(res, sl, hit) ==
  LET flt   == IF res.status = "ok" THEN df_filtered(res.df, sl) ELSE <<>>
      shown == IF res.status = "ok" THEN Display(flt) ELSE NotDisplayed
  IN  [status |-> res.status, err |-> res.err, df |-> res.df,
       durations |-> res.durations, nows |-> res.nows,
       df_filtered |-> flt, warning |-> shown.warning,
       chart |-> shown.chart, table |-> shown.table, hit |-> hit]

\* the script without a file (lines 173-174)
NoFileOut ==
  [status |-> "idle", err |-> "", df |-> <<>>, durations |-> <<>>, nows |-> <<>>,
   df_filtered |-> <<>>, warning |-> "Please upload a CSV file to proceed.",
   chart |-> FALSE, table |-> FALSE, hit |-> FALSE]

(***************************************************************************)
(* Inputs                                                                  *)
(***************************************************************************)
Tables == UNION {[1..n -> SampleRows] : n \in 0..MaxRows}

SliderValues == {45, 50}

SliderDefault == [profitability |-> 50, profit_prob |-> 50]

Min(a, b) == IF a < b THEN a ELSE b

\* what datetime.today() returns in k successive calls: the clock never runs
\* backwards, and a run takes at most MaxRunTicks ticks
Readings(k, from) ==
  {s \in [1..k -> from..Min(from + MaxRunTicks, MaxClock)] :
     \A i \in 1..(k - 1) : s[i] <= s[i + 1]}

NoCall == [fn |-> "", prof |-> 0, profit_prob |-> 0, duration |-> 0, ret |-> Return(0)]

(***************************************************************************)
(* The session: every widget interaction reruns the whole script           *)
(***************************************************************************)
Init ==
  /\ uploaded_file = NoFile
  /\ cache = EmptyCache
  /\ clock = 0
  /\ sliders = SliderDefault
  /\ out = NoFileOut
  /\ call = NoCall

\* one run of the script with a file uploaded (lines 30-171)
Run(file, button, sl) ==
  \E df \in {Loaded(cache, file, button)} :
    \E parsed \in {Parse(df)} :
      \E nows \in Readings(DurationLoopRows(parsed), clock) :
        /\ cache' = [present |-> TRUE, df |-> cache_data(df, parsed.frame)]
        /\ out' = Show(Grade(parsed, nows), sl, cache.present)
        /\ clock' = IF nows # <<>> THEN nows[Len(nows)] ELSE clock

Upload ==
  /\ ~uploaded_file.present
  /\ \E t \in Tables :
       /\ uploaded_file' = [present |-> TRUE, rows |-> t]
       /\ Run(t, FALSE, sliders)
  /\ UNCHANGED <<sliders, call>>

Rerun ==
  /\ uploaded_file.present
  /\ Run(uploaded_file.rows, FALSE, sliders)
  /\ UNCHANGED <<uploaded_file, sliders, call>>

MoveSliders ==
  /\ uploaded_file.present
  /\ \E v \in SliderValues :
       /\ \/ sliders' = [sliders EXCEPT !.profitability = v]
          \/ sliders' = [sliders EXCEPT !.profit_prob = v]
       /\ sliders' # sliders
       /\ Run(uploaded_file.rows, FALSE, sliders')
  /\ UNCHANGED <<uploaded_file, call>>

RefreshData ==
  /\ uploaded_file.present
  /\ Run(uploaded_file.rows, TRUE, sliders)
  /\ UNCHANGED <<uploaded_file, sliders, call>>

Tick ==
  /\ clock < MaxClock
  /\ clock' = clock + 1
  /\ UNCHANGED <<uploaded_file, cache, sliders, out, call>>

Next == Upload \/ Rerun \/ MoveSliders \/ RefreshData \/ Tick

Spec == Init /\ [][Next]_vars

(***************************************************************************)
(* The grade functions on their own: one call per behaviour, with an       *)
(* argument from a bounded range, in tenths                                *)
(***************************************************************************)
ProfInputs == (-10 * MaxProf)..(10 * MaxProf)

ProbInputs == (-10 * MaxProb)..(10 * MaxProb)

\* arguments of the grade loop body: each threshold, the tenth below it, and
\* the ends of the ranges
RowProfs ==
  {10 * profitability_ranges[i] : i \in 1..Len(profitability_ranges)}
    \cup {10 * profitability_ranges[i] - 1 : i \in 1..Len(profitability_ranges)}
    \cup {0, 10 * MaxProf}

RowProbs ==
  {10 * profit_prob_ranges[i] : i \in 1..Len(profit_prob_ranges)}
    \cup {10 * profit_prob_ranges[i] - 1 : i \in 1..Len(profit_prob_ranges)}
    \cup {0, 10 * MaxProb}

CallGradeProfitability ==
  /\ call = NoCall
  /\ \E p \in ProfInputs :
       call' = [fn |-> "grade_profitability", prof |-> p, profit_prob |-> 0,
                duration |-> 0, ret |-> Return(grade_profitability(p))]
  /\ UNCHANGED <<uploaded_file, cache, clock, sliders, out>>

CallGradeProfitProb ==
  /\ call = NoCall
  /\ \E q \in ProbInputs :
       call' = [fn |-> "grade_profit_prob", prof |-> 0, profit_prob |-> q,
                duration |-> 0, ret |-> Return(grade_profit_prob(q))]
  /\ UNCHANGED <<uploaded_file, cache, clock, sliders, out>>

CallGradeRow ==
  /\ call = NoCall
  /\ \E p \in RowProfs, q \in RowProbs, d \in (-MaxDur)..MaxDur :
       call' = [fn |-> "grade_row", prof |-> p, profit_prob |-> q,
                duration |-> d, ret |-> GradeRow(p, q, d)]
  /\ UNCHANGED <<uploaded_file, cache, clock, sliders, out>>

GradeNext == CallGradeProfitability \/ CallGradeProfitProb \/ CallGradeRow

GradeSpec == Init /\ [][GradeNext]_vars

(***************************************************************************)
(* Properties of the grade functions (GradeSpec)                           *)
(***************************************************************************)
\* the grade of the first threshold above p, written out threshold by threshold
FirstThresholdProfitability(p) ==
  IF p < 600 THEN 1 ELSE IF p < 700 THEN 2 ELSE IF p < 800 THEN 3
  ELSE IF p < 900 THEN 4 ELSE IF p < 1000 THEN 5 ELSE IF p < 1250 THEN 6
  ELSE IF p < 1500 THEN 7 ELSE IF p < 2000 THEN 8 ELSE IF p < 3000 THEN 9
  ELSE 10

FirstThresholdProfitProb(q) ==
  IF q < 300 THEN 3 ELSE IF q < 350 THEN 4 ELSE IF q < 400 THEN 5
  ELSE IF q < 450 THEN 6 ELSE IF q < 500 THEN 7 ELSE IF q < 550 THEN 8
  ELSE IF q < 600 THEN 9 ELSE 10

\* C1: grade_profitability(p) is the grade of the first threshold of
\* 60,70,80,90,100,125,150,200,300 above p (0.1 .. 0.9) and 1.0 from 300 on;
\* below 60 it is 0.1, never 0; 59 -> 0.1, 60 -> 0.2, 300 and 301 -> 1.0; the
\* function always returns a grade.
C1_GradeProfitability ==
  call.fn = "grade_profitability" =>
    /\ call.ret.v # NoGrade
    /\ call.ret.v = FirstThresholdProfitability(call.prof)
    /\ (call.prof < 600 => call.ret.v = 1)
    /\ (call.prof = 590 => call.ret.v = 1)
    /\ (call.prof = 600 => call.ret.v = 2)
    /\ (call.prof \in {3000, 3010} => call.ret.v = 10)

C1_Witness ==
  call.fn = "grade_profitability" /\ call.prof = 600 /\ call.ret.v = 2

\* C2: grade_profit_prob(pp) is the grade of the first threshold of
\* 30,35,40,45,50,55,60 above pp (0.3 .. 0.9) and 1.0 from 60 on; 29 -> 0.3,
\* 60 -> 1.0; the function always returns a grade.
C2_GradeProfitProb ==
  call.fn = "grade_profit_prob" =>
    /\ call.ret.v # NoGrade
    /\ call.ret.v = FirstThresholdProfitProb(call.profit_prob)
    /\ (call.profit_prob = 290 => call.ret.v = 3)
    /\ (call.profit_prob = 600 => call.ret.v = 10)

C2_Witness ==
  call.fn = "grade_profit_prob" /\ call.profit_prob = 600 /\ call.ret.v = 10

\* C3: for a row with nonzero duration the Grade is
\* round(grade_profit_prob*50 + grade_profitability*50, 1): it does not
\* depend on the duration, lies in [20, 100], and is 100.0 for
\* profit_prob 60 and profitability 300.
C3_Grade ==
  (call.fn = "grade_row" /\ call.duration # 0) =>
    /\ call.ret.ok
    /\ call.ret.v = FirstThresholdProfitProb(call.profit_prob) * 50
                      + FirstThresholdProfitability(call.prof) * 50
    /\ call.ret.v >= 200
    /\ call.ret.v <= 1000
    /\ (call.profit_prob = 600 /\ call.prof = 3000 => call.ret.v = 1000)

C3_Witness ==
  /\ call.fn = "grade_row"
  /\ call.duration = -1
  /\ call.profit_prob = 600
  /\ call.prof = 3000
  /\ call.ret.v = 1000

(***************************************************************************)
(* Properties of the session (Spec)                                        *)
(***************************************************************************)
Raw == uploaded_file.rows

Ran == out.status # "idle"

EndsWith(s, suffix) ==
  Len(suffix) <= Len(s) /\ SubSeq(s, Len(s) - Len(suffix) + 1, Len(s)) = suffix

\* '<number>%' and '<number> to 1'
MatchesPattern(s, suffix) ==
  EndsWith(s, suffix) /\ IsNumberText(SubSeq(s, 1, Len(s) - Len(suffix)))

\* the cells pd.read_csv leaves as text
IsTextCell(column, i) ==
  /\ column[i] # <<>>
  /\ \E j \in 1..Len(column) : column[j] # <<>> /\ ~IsNumberText(column[j])

ProfitProbColumn == [i \in 1..Len(Raw) |-> Raw[i].pp]

RiskRewardColumn == [i \in 1..Len(Raw) |-> Raw[i].rr]

NoOutput ==
  /\ out.status = "error"
  /\ out.df = <<>>
  /\ out.df_filtered = <<>>
  /\ ~out.chart
  /\ ~out.table

\* C4: duration counts the days from 'now' to the expiration inclusively,
\* whatever the time of day: expiration day minus the day of 'now', plus one
\* (same day -> 1, ten days later -> 11).
C4_InclusiveDuration ==
  \A i \in 1..Len(out.durations) :
    out.durations[i] = Raw[i].exp - (out.nows[i] \div 2) + 1

\* C5: a table of N >= 1 rows yields at most N-1 enriched rows; a run that
\* succeeds yields the first N-1 rows, each with Row Index equal to its
\* original zero-based position 0..N-2.
C5_RowIndex ==
  (uploaded_file.present /\ Len(Raw) >= 1) =>
    /\ Len(out.df) <= Len(Raw) - 1
    /\ out.status = "ok" =>
         /\ Len(out.df) = Len(Raw) - 1
         /\ \A i \in 1..Len(out.df) :
              out.df[i].RowIndex = i - 1 /\ out.df[i].exp = Raw[i].exp

C5_Witness == out.status = "ok" /\ Len(Raw) = 3 /\ Len(out.df) = 2

\* C6 as stated: the run aborts with no enriched output whenever a Profit
\* Prob value of a processed row does not match '<number>%' or a Risk/Reward
\* value does not match '<number> to 1'.
C6_StrictPattern ==
  (Ran /\ \E i \in 1..(Len(Raw) - 1) :
            \/ ~MatchesPattern(Raw[i].pp, PercentSign)
            \/ ~MatchesPattern(Raw[i].rr, ToOne))
    => NoOutput

\* C6 amended: the parser fails, and the run aborts with no enriched output,
\* exactly when in a row other than the dropped last one a Profit Prob or
\* Risk/Reward value is not text, or the text left after deleting every
\* occurrence of '%' (of ' to 1') is not a number; an accepted value is that
\* number, never a fallback, also when it does not match the pattern (a bare
\* number in a text column, the marker in the middle of the text).
C6_Rejected(column, marker, i) ==
  ~IsTextCell(column, i) \/ ~IsNumberText(Replace(column[i], marker))

C6_Number(s, marker) == NatVal(Strip(Replace(s, marker)))

C6_ParseFailure ==
  (Ran /\ Len(Raw) >= 1) =>
    LET rejected == \E i \in 1..(Len(Raw) - 1) :
                      \/ C6_Rejected(ProfitProbColumn, PercentSign, i)
                      \/ C6_Rejected(RiskRewardColumn, ToOne, i)
    IN  /\ rejected => NoOutput /\ out.err \in {"ValueError", "AttributeError"}
        /\ ~rejected => out.err \notin {"ValueError", "AttributeError"}
        /\ out.status = "ok" =>
             \A i \in 1..Len(out.df) :
               /\ out.df[i].ProfitProb = C6_Number(Raw[i].pp, PercentSign)
               /\ out.df[i].Profitability
                    = RoundDiv(1000, C6_Number(Raw[i].rr, ToOne))

\* a run that accepted a bare number and a marker in the middle of the text
C6_Witness ==
  /\ out.status = "ok"
  /\ \E i \in 1..Len(out.df) : ~EndsWith(Raw[i].pp, PercentSign)
  /\ \E i \in 1..Len(out.df) :
       EndsWith(Raw[i].rr, <<"4">>) /\ Raw[i].rr # Replace(Raw[i].rr, ToOne)

\* C7: the filtered set is exactly the enriched rows with
\* profitability >= tp and profit_prob >= tq, the enriched table keeps all
\* its rows; an empty filtered set gives the advisory and neither plot nor
\* table, a non-empty one gives plot and table.
C7_Filter ==
  out.status = "ok" =>
    LET kept == {i \in 1..Len(out.df) :
                   /\ out.df[i].Profitability >= 10 * sliders.profitability
                   /\ out.df[i].ProfitProb >= sliders.profit_prob}
    IN  /\ Len(out.df) = Len(Raw) - 1
        /\ Len(out.df_filtered) = Cardinality(kept)
        /\ {out.df_filtered[j] : j \in 1..Len(out.df_filtered)} = {out.df[i] : i \in kept}
        /\ kept = {} =>
             /\ out.warning = "No data points in this range."
             /\ ~out.chart
             /\ ~out.table
        /\ kept # {} => out.warning = "" /\ out.chart /\ out.table

\* a threshold equal to a row's value keeps the row while another row is dropped
C7_Witness ==
  /\ out.status = "ok"
  /\ Len(out.df_filtered) = 1
  /\ Len(out.df) = 2
  /\ out.df_filtered[1].Profitability = 10 * sliders.profitability
  /\ out.chart

\* C8: whatever reruns and refreshes came before, a run yields the table that
\* a first run on the raw upload yields with the same readings of 'now': no
\* run starts from a frame an earlier run already cleaned.
C8_Idempotent ==
  Ran =>
    LET raw == read_csv(Raw)
    IN  /\ Len(out.nows) = DurationLoopRows(Parse(raw))
        /\ cache = [present |-> TRUE, df |-> raw]
        /\ LET first == Enrich(raw, out.nows)
           IN  /\ out.status = first.status
               /\ out.err = first.err
               /\ out.df = first.df

\* a run that found the frame in the cache and enriched it
C8_Witness == out.hit /\ out.status = "ok" /\ Len(out.df) = 2

\* C9: 'now' is captured once per run, so two rows of a run with the same
\* expiration date get the same duration.
C9_SameNow ==
  \A i, j \in 1..Len(out.durations) :
    Raw[i].exp = Raw[j].exp => out.durations[i] = out.durations[j]

\* C10: a duration of zero in any row fails the run with a division error
\* although w_duration is 0, and nothing is filtered, plotted or tabulated;
\* rows with nonzero durations, negative ones included, are all graded.
C10_ZeroDuration ==
  Len(out.durations) > 0 =>
    /\ (\E i \in 1..Len(out.durations) : out.durations[i] = 0) =>
         NoOutput /\ out.err = "ZeroDivisionError"
    /\ (\A i \in 1..Len(out.durations) : out.durations[i] # 0) =>
         /\ out.status = "ok"
         /\ Len(out.df) = Len(out.durations)
         /\ \A i \in 1..Len(out.df) : out.df[i].Grade >= 200

C10_Witness ==
  /\ out.err = "ZeroDivisionError"
  /\ w_duration = 0
  /\ \E i \in 1..Len(out.durations) : out.durations[i] = 0
  /\ \E i \in 1..Len(out.durations) : out.durations[i] < 0

====
